---- MODULE Spec2Model ----
(***************************************************************************)
(* Model of vminspect/timeline.py: the USN journal aggregation             *)
(* (parse_journal, journal_event), the directory index built by            *)
(* NTFSTimeline._visit_filesystem, and the correlation of the two          *)
(* (generate_timeline, lookup_dirent), driven by NTFSTimeline.timeline.    *)
(*                                                                         *)
(* Strings are sequences of one-character strings, so that concatenation   *)
(* and the substring test `in` are computed, not assumed.                  *)
(***************************************************************************)
EXTENDS Integers, Sequences, FiniteSets, TLC

(***************************************************************************)
(* Bounds of the model.                                                    *)
(***************************************************************************)
MaxJournal == 3
MaxWalk == 2
MaxEvents == 2

(***************************************************************************)
(* Input domains.                                                          *)
(***************************************************************************)
\* object identifiers (file reference numbers / inodes)
Ids == {1, 11}
\* timestamps: opaque strings
Timestamps == {<<"2">>, <<"1", "2">>}
\* short names recorded by the journal, and names reported by the walk
Names == {<<"f">>, <<"f", "b">>}
ReasonCodes == {"CLOSE", "DATA_EXTEND"}

\* All sequences over S of length at most n.
SeqsUpTo(S, n) == UNION {[1..k -> S] : k \in 0..n}

\* Raw journal records as handed in by usn_journal.  The attributes follow
\* the name, which keeps the set of records small.
UsnRecords ==
    {[file_reference_number |-> i,
      file_name |-> n,
      timestamp |-> t,
      reasons |-> {r},
      file_attributes |-> IF n = <<"f">> THEN {"ARCHIVE"} ELSE {"HIDDEN"}] :
        i \in Ids, n \in Names, t \in Timestamps, r \in ReasonCodes}

\* Entries reported by guestfs.filesystem_walk: an allocated entry of four
\* bytes or a deleted one of unknown size.
WalkEntries ==
    {[tsk_inode |-> i,
      tsk_name |-> n,
      tsk_size |-> IF f = 1 THEN 4 ELSE 0,
      tsk_flags |-> f] :
        i \in Ids, n \in Names, f \in {0, 1}}

VARIABLES
    journal,       \* the raw journal records (input)
    walk,          \* the filesystem-walk entries (input)
    seed,          \* the interpreter's string hash seed
    pc,            \* position of NTFSTimeline.timeline
    jpos,          \* journal records consumed by groupby
    group,         \* the group groupby is accumulating
    event_groups,  \* the groups yielded so far (tuple(g))
    usnjrnl,       \* the JrnlEvent list parse_journal builds
    wpos,          \* walk entries consumed by _visit_filesystem
    content,       \* the defaultdict inode -> [Dirent]
    epos,          \* JrnlEvents consumed by generate_timeline
    out,           \* the Events yielded so far
    run,           \* which run of the pipeline this is
    prev_out       \* the Events the previous run yielded

vars == <<journal, walk, seed, pc, jpos, group, event_groups, usnjrnl,
          wpos, content, epos, out, run, prev_out>>

(***************************************************************************)
(* Python primitives the module relies on.                                 *)
(***************************************************************************)
Digits == <<"0", "1", "2", "3", "4", "5", "6", "7", "8", "9">>

\* str(n) for a non-negative integer: its decimal digits.
RECURSIVE str(_)
str(n) ==
    IF n < 10 THEN <<Digits[n + 1]>>
    ELSE str(n \div 10) \o <<Digits[(n % 10) + 1]>>

\* `a in b` for strings: a occurs in b as a contiguous substring.
str_contains(b, a) ==
    \E i \in 0..(Len(b) - Len(a)) : SubSeq(b, i + 1, i + Len(a)) = a

\* The hash seeds an interpreter may start with.  The iteration order of a
\* set of strings is a function of the seed and of the set.
Seeds == {0, 1}

HashOrder(s) ==
    IF s = 0 THEN <<"CLOSE", "DATA_EXTEND", "ARCHIVE", "HIDDEN">>
    ELSE <<"HIDDEN", "ARCHIVE", "DATA_EXTEND", "CLOSE">>

\* list(S) for a set S of strings under hash seed s.
list_of_set(S, s) == SelectSeq(HashOrder(s), LAMBDA c : c \in S)

(***************************************************************************)
(* parse_journal and journal_event.                                        *)
(***************************************************************************)
\* keyfunc = lambda e: str(e.file_reference_number) + e.timestamp
keyfunc(e) == str(e.file_reference_number) \o e.timestamp

\* journal_event taking the reasons and attributes of the first record only.
journal_event_first_record(events, s) ==
    [inode |-> events[1].file_reference_number,
     name |-> events[1].file_name,
     timestamp |-> events[1].timestamp,
     changes |-> list_of_set(events[1].reasons, s),
     attributes |-> list_of_set(events[1].file_attributes, s)]

\* journal_event(events): one JrnlEvent for a group of records.
journal_event(events, s) ==
    LET reasons == UNION {events[i].reasons : i \in DOMAIN events}
        attributes == UNION {events[i].file_attributes : i \in DOMAIN events}
    IN  [inode |-> events[1].file_reference_number,
         name |-> events[1].file_name,
         timestamp |-> events[1].timestamp,
         changes |-> list_of_set(reasons, s),
         attributes |-> list_of_set(attributes, s)]

\* groupby takes the next record into the group it is accumulating: the
\* group is empty or the record's key equals the group's key.
GroupbyAppend ==
    /\ pc = "read_journal"
    /\ jpos < Len(journal)
    /\ IF group = <<>> THEN TRUE
       ELSE keyfunc(journal[jpos + 1]) = keyfunc(group[1])
    /\ group' = Append(group, journal[jpos + 1])
    /\ jpos' = jpos + 1
    /\ UNCHANGED <<journal, walk, seed, pc, event_groups, usnjrnl, wpos,
                   content, epos, out, run, prev_out>>

\* groupby closes the group (the next key differs, or the input ended) and
\* the list comprehension appends journal_event(g).
GroupbyYield ==
    /\ pc = "read_journal"
    /\ group # <<>>
    /\ IF jpos = Len(journal) THEN TRUE
       ELSE keyfunc(journal[jpos + 1]) # keyfunc(group[1])
    /\ event_groups' = Append(event_groups, group)
    /\ usnjrnl' = Append(usnjrnl, journal_event(group, seed))
    /\ group' = <<>>
    /\ UNCHANGED <<journal, walk, seed, pc, jpos, wpos, content, epos, out,
                   run, prev_out>>

\* parse_journal returns; timeline goes on to _visit_filesystem.
ParseReturn ==
    /\ pc = "read_journal"
    /\ jpos = Len(journal)
    /\ group = <<>>
    /\ pc' = "visit_filesystem"
    /\ UNCHANGED <<journal, walk, seed, jpos, group, event_groups, usnjrnl,
                   wpos, content, epos, out, run, prev_out>>

(***************************************************************************)
(* NTFSTimeline._visit_filesystem.                                         *)
(***************************************************************************)
\* FileSystem.path: the walk's name, already rooted by the '/' prefix.
fs_path(p) == p

\* Dirent(path, size, allocated) for one walk entry.
Dirent(dirent) ==
    [path |-> fs_path(<<"/">> \o dirent.tsk_name),
     size |-> dirent.tsk_size,
     allocated |-> (dirent.tsk_flags = 1)]

\* content[key] on a defaultdict(list): a missing key is inserted with [].
defaultdict_getitem(d, key) ==
    IF key \in DOMAIN d THEN d
    ELSE [k \in DOMAIN d \cup {key} |-> IF k = key THEN <<>> ELSE d[k]]

\* content[inode] = [entry]: the entry replaces the list.
defaultdict_assign(d, key, entry) ==
    [k \in DOMAIN d \cup {key} |-> IF k = key THEN <<entry>> ELSE d[k]]

\* content[inode].append(entry)
defaultdict_append(d, key, entry) ==
    LET g == defaultdict_getitem(d, key)
    IN  [g EXCEPT ![key] = Append(g[key], entry)]

\* One iteration of the loop over guestfs.filesystem_walk(root).
VisitDirent ==
    /\ pc = "visit_filesystem"
    /\ wpos < Len(walk)
    /\ content' = defaultdict_append(content, walk[wpos + 1].tsk_inode,
                                     Dirent(walk[wpos + 1]))
    /\ wpos' = wpos + 1
    /\ UNCHANGED <<journal, walk, seed, pc, jpos, group, event_groups,
                   usnjrnl, epos, out, run, prev_out>>

\* _visit_filesystem returning from inside the loop, after the first entry.
VisitReturn_in_loop ==
    /\ pc = "visit_filesystem"
    /\ wpos = Len(walk) \/ wpos = 1
    /\ pc' = "generate_timeline"
    /\ UNCHANGED <<journal, walk, seed, jpos, group, event_groups, usnjrnl,
                   wpos, content, epos, out, run, prev_out>>

\* The walk is exhausted: _visit_filesystem returns content.
VisitReturn ==
    /\ pc = "visit_filesystem"
    /\ wpos = Len(walk)
    /\ pc' = "generate_timeline"
    /\ UNCHANGED <<journal, walk, seed, jpos, group, event_groups, usnjrnl,
                   wpos, content, epos, out, run, prev_out>>

(***************************************************************************)
(* generate_timeline and lookup_dirent.                                    *)
(***************************************************************************)
NoDirent == [path |-> <<>>, size |-> 0, allocated |-> FALSE]

\* Index of the last dirent of the list whose path contains name, 0 if none.
last_match(dirents, name) ==
    IF \E i \in DOMAIN dirents : str_contains(dirents[i].path, name)
    THEN CHOOSE i \in DOMAIN dirents :
            /\ str_contains(dirents[i].path, name)
            /\ \A j \in (i + 1)..Len(dirents) :
                   ~str_contains(dirents[j].path, name)
    ELSE 0

\* Index of the first dirent of the list whose path contains name, 0 if none.
first_match(dirents, name) ==
    IF \E i \in DOMAIN dirents : str_contains(dirents[i].path, name)
    THEN CHOOSE i \in DOMAIN dirents :
            /\ str_contains(dirents[i].path, name)
            /\ \A j \in 1..(i - 1) : ~str_contains(dirents[j].path, name)
    ELSE 0

\* lookup_dirent(event, content): the dirent returned, or the exception
\* raised.
lookup_dirent(event, d) ==
    LET dirents == defaultdict_getitem(d, event.inode)[event.inode]
        i == first_match(dirents, event.name)
    IN  IF i > 0 THEN [exc |-> "none", dirent |-> dirents[i]]
        ELSE [exc |-> "LookupError", dirent |-> NoDirent]

\* Event(event.inode, dirent.path, dirent.size, dirent.allocated, ...)
Event(event, dirent) ==
    [file_reference_number |-> event.inode,
     path |-> dirent.path,
     size |-> dirent.size,
     allocated |-> dirent.allocated,
     timestamp |-> event.timestamp,
     changes |-> event.changes,
     attributes |-> event.attributes]

\* An except clause that handles KeyError only.
Handled_KeyError == {"KeyError"}

\* The exceptions the except clause of generate_timeline handles.
Handled == {"LookupError"}

\* The loop body putting the event in front of those yielded before.
Yield_in_front ==
    /\ pc = "generate_timeline"
    /\ epos < Len(usnjrnl)
    /\ LET event == usnjrnl[epos + 1]
           r == lookup_dirent(event, content)
       IN  /\ r.exc = "none"
           /\ out' = <<Event(event, r.dirent)>> \o out
           /\ content' = defaultdict_getitem(content, event.inode)
    /\ epos' = epos + 1
    /\ UNCHANGED <<journal, walk, seed, pc, jpos, group, event_groups,
                   usnjrnl, wpos, run, prev_out>>

\* The loop body of generate_timeline when lookup_dirent returns.
Yield ==
    /\ pc = "generate_timeline"
    /\ epos < Len(usnjrnl)
    /\ LET event == usnjrnl[epos + 1]
           r == lookup_dirent(event, content)
       IN  /\ r.exc = "none"
           /\ out' = Append(out, Event(event, r.dirent))
           /\ content' = defaultdict_getitem(content, event.inode)
    /\ epos' = epos + 1
    /\ UNCHANGED <<journal, walk, seed, pc, jpos, group, event_groups,
                   usnjrnl, wpos, run, prev_out>>

\* The loop body of generate_timeline when lookup_dirent raises.
Drop ==
    /\ pc = "generate_timeline"
    /\ epos < Len(usnjrnl)
    /\ LET event == usnjrnl[epos + 1]
           r == lookup_dirent(event, content)
       IN  /\ r.exc # "none"
           /\ content' = defaultdict_getitem(content, event.inode)
           /\ pc' = IF r.exc \in Handled THEN pc ELSE "error"
    /\ epos' = epos + 1
    /\ UNCHANGED <<journal, walk, seed, jpos, group, event_groups, usnjrnl,
                   wpos, out, run, prev_out>>

\* The journal events are exhausted: the generator ends.
GenerateReturn ==
    /\ pc = "generate_timeline"
    /\ epos = Len(usnjrnl)
    /\ pc' = "done"
    /\ UNCHANGED <<journal, walk, seed, jpos, group, event_groups, usnjrnl,
                   wpos, content, epos, out, run, prev_out>>

\* timeline() is called again on the same, unmodified inputs, in this or in
\* another interpreter process.
Rerun ==
    /\ pc = "done"
    /\ run = 1
    /\ run' = 2
    /\ prev_out' = out
    /\ seed' \in Seeds
    /\ pc' = "read_journal"
    /\ jpos' = 0
    /\ group' = <<>>
    /\ event_groups' = <<>>
    /\ usnjrnl' = <<>>
    /\ wpos' = 0
    /\ content' = <<>>
    /\ epos' = 0
    /\ out' = <<>>
    /\ UNCHANGED <<journal, walk>>

(***************************************************************************)
(* Specifications.                                                         *)
(***************************************************************************)
\* State shared by every initial state: nothing has run yet.
Fresh ==
    /\ seed \in Seeds
    /\ jpos = 0
    /\ group = <<>>
    /\ event_groups = <<>>
    /\ wpos = 0
    /\ content = <<>>
    /\ epos = 0
    /\ out = <<>>
    /\ run = 1
    /\ prev_out = <<>>

\* parse_journal over any journal.
InitAgg ==
    /\ Fresh
    /\ journal \in SeqsUpTo(UsnRecords, MaxJournal)
    /\ walk = <<>>
    /\ usnjrnl = <<>>
    /\ pc = "read_journal"

NextAgg == GroupbyAppend \/ GroupbyYield \/ ParseReturn

SpecAgg == InitAgg /\ [][NextAgg]_vars

\* JrnlEvents handed to generate_timeline.
JrnlEvents ==
    [inode : Ids,
     name : Names,
     timestamp : {<<"2">>},
     changes : {<<"CLOSE">>},
     attributes : {<<"ARCHIVE">>}]

\* _visit_filesystem over any walk, then generate_timeline over any list of
\* JrnlEvents.
InitCorr ==
    /\ Fresh
    /\ journal = <<>>
    /\ walk \in SeqsUpTo(WalkEntries, MaxWalk)
    /\ usnjrnl \in SeqsUpTo(JrnlEvents, MaxEvents)
    /\ pc = "visit_filesystem"

NextCorr == VisitDirent \/ VisitReturn \/ Yield \/ Drop \/ GenerateReturn

SpecCorr == InitCorr /\ [][NextCorr]_vars

\* The records and walk entries of the whole-pipeline runs.
PipeRecords ==
    [file_reference_number : Ids,
     file_name : {<<"f">>},
     timestamp : {<<"2">>},
     reasons : {{"CLOSE"}, {"DATA_EXTEND"}},
     file_attributes : {{"ARCHIVE"}}]

PipeEntries ==
    [tsk_inode : Ids,
     tsk_name : {<<"f">>},
     tsk_size : {4},
     tsk_flags : {1}]

\* NTFSTimeline.timeline, run twice over the same inputs.
Init ==
    /\ Fresh
    /\ journal \in SeqsUpTo(PipeRecords, MaxJournal)
    /\ walk \in SeqsUpTo(PipeEntries, MaxWalk)
    /\ usnjrnl = <<>>
    /\ pc = "read_journal"

Next ==
    \/ GroupbyAppend
    \/ GroupbyYield
    \/ ParseReturn
    \/ VisitDirent
    \/ VisitReturn
    \/ Yield
    \/ Drop
    \/ GenerateReturn
    \/ Rerun

Spec == Init /\ [][Next]_vars

(***************************************************************************)
(* Helpers of the properties.                                              *)
(***************************************************************************)
Range(q) == {q[i] : i \in DOMAIN q}

NoDuplicates(q) == \A i, j \in DOMAIN q : i # j => q[i] # q[j]

\* The composite key (identifier, timestamp) of a raw record.
PairKey(e) == <<e.file_reference_number, e.timestamp>>

\* The maximal contiguous runs of records with equal (identifier, timestamp).
RECURSIVE PairRuns(_)
PairRuns(q) ==
    IF q = <<>> THEN <<>>
    ELSE LET rest == PairRuns(Tail(q))
         IN  IF rest # <<>> /\ PairKey(rest[1][1]) = PairKey(Head(q))
             THEN <<(<<Head(q)>> \o rest[1])>> \o Tail(rest)
             ELSE <<(<<Head(q)>>)>> \o rest

\* parse_journal has returned.
Parsed == pc # "read_journal"

\* The list the index holds for an identifier (none: the empty list).
IndexOf(id) == IF id \in DOMAIN content THEN content[id] ELSE <<>>

\* The entries the first n walk entries contribute to identifier id, in
\* walk order.
RECURSIVE WalkDirents(_, _)
WalkDirents(id, n) ==
    IF n = 0 THEN <<>>
    ELSE IF walk[n].tsk_inode = id
         THEN Append(WalkDirents(id, n - 1), Dirent(walk[n]))
         ELSE WalkDirents(id, n - 1)

\* Some entry indexed under the event's identifier has a path containing
\* the event's name.
Resolves(e) ==
    \E i \in DOMAIN IndexOf(e.inode) : str_contains(IndexOf(e.inode)[i].path, e.name)

\* The resolving events among the first n JrnlEvents.
Resolved(n) == {k \in 1..n : Resolves(usnjrnl[k])}

\* The first entry, in index order, that resolves the event.
FirstEntry(e) ==
    LET entries == IndexOf(e.inode)
        m == CHOOSE i \in DOMAIN entries :
                 /\ str_contains(entries[i].path, e.name)
                 /\ \A j \in DOMAIN entries :
                        str_contains(entries[j].path, e.name) => i <= j
    IN  entries[m]

\* Event o carries the fields of JrnlEvent e.
FromEvent(o, e) ==
    /\ o.file_reference_number = e.inode
    /\ o.timestamp = e.timestamp
    /\ o.changes = e.changes
    /\ o.attributes = e.attributes
    /\ str_contains(o.path, e.name)

(***************************************************************************)
(* Properties.                                                             *)
(***************************************************************************)
\* C1: parse_journal emits exactly one event per maximal contiguous run of
\* records with the same (identifier, timestamp) pair: the groups it forms
\* are exactly those runs.
C1_OneEventPerPairRun ==
    Parsed => /\ event_groups = PairRuns(journal)
              /\ Len(usnjrnl) = Len(PairRuns(journal))

\* C2: the changes of every aggregated event have no duplicate and are, as
\* a set, the union of the reasons of the records merged into it; likewise
\* its attributes and the records' file_attributes.
C2_UnionNoDuplicates ==
    /\ Len(usnjrnl) = Len(event_groups)
    /\ \A k \in DOMAIN usnjrnl :
        LET g == event_groups[k]
            e == usnjrnl[k]
        IN  /\ NoDuplicates(e.changes)
            /\ Range(e.changes) = UNION {g[i].reasons : i \in DOMAIN g}
            /\ NoDuplicates(e.attributes)
            /\ Range(e.attributes) =
                   UNION {g[i].file_attributes : i \in DOMAIN g}

\* C2 witness: three records, one reason repeated, merged into one event
\* with two changes and two attributes.
C2_Witness ==
    \E k \in DOMAIN usnjrnl :
        /\ Len(event_groups[k]) = 3
        /\ Len(usnjrnl[k].changes) = 2
        /\ Len(usnjrnl[k].attributes) = 2

\* C3: an event is yielded exactly when some entry indexed under its
\* identifier has a path containing its name; otherwise it is dropped, no
\* error reaches the caller and the remaining events are processed.
C3_YieldIffResolves ==
    /\ pc # "error"
    /\ Len(out) = Cardinality(Resolved(epos))
    /\ pc = "done" => epos = Len(usnjrnl)

\* C3 witness: an event whose identifier the walk never reported was
\* dropped and a later event was yielded.
C3_Witness ==
    /\ pc = "done"
    /\ Len(usnjrnl) = 2
    /\ \A w \in DOMAIN walk : walk[w].tsk_inode # usnjrnl[1].inode
    /\ Resolves(usnjrnl[2])
    /\ Len(out) = 1

\* C4: the events yielded are a subsequence of the JrnlEvents consumed: at
\* most as many, each from one JrnlEvent, in the same relative order.
C4_Subsequence ==
    /\ Len(out) <= epos
    /\ \E f \in [1..Len(out) -> 1..epos] :
        /\ \A a, b \in 1..Len(out) : a < b => f[a] < f[b]
        /\ \A a \in 1..Len(out) : FromEvent(out[a], usnjrnl[f[a]])

\* C4 witness: two events of different identifiers were yielded.
C4_Witness ==
    /\ pc = "done"
    /\ Len(out) = 2
    /\ out[1].file_reference_number # out[2].file_reference_number

\* C5: the path, size and allocated of a yielded event are those of the
\* first entry, in walk order, among the entries indexed under the event's
\* identifier whose path contains the event's name.
C5_FirstMatchInOrder ==
    \A k \in Resolved(epos) :
        LET j == Cardinality(Resolved(k))
            d == FirstEntry(usnjrnl[k])
        IN  /\ j <= Len(out)
            /\ out[j].path = d.path
            /\ out[j].size = d.size
            /\ out[j].allocated = d.allocated

\* C5 witness: an event was yielded whose identifier indexes two different
\* entries, both containing its name.
C5_Witness ==
    /\ epos = 1
    /\ Len(out) = 1
    /\ LET entries == IndexOf(usnjrnl[1].inode)
       IN  /\ Len(entries) = 2
           /\ entries[1] # entries[2]
           /\ str_contains(entries[1].path, usnjrnl[1].name)
           /\ str_contains(entries[2].path, usnjrnl[1].name)

\* C6: an identifier observed n times by the walk maps to exactly n entries,
\* in the order they were encountered; at every step of the build the index
\* holds, per identifier, exactly the entries walked so far.
C6_IndexPreservesEntries ==
    \A id \in Ids :
        /\ IndexOf(id) = WalkDirents(id, wpos)
        /\ WalkDirents(id, wpos) # <<>> => id \in DOMAIN content

\* C6 witness: the index is built and one identifier holds two different
\* entries.
C6_Witness ==
    /\ pc = "generate_timeline"
    /\ \E id \in DOMAIN content :
        /\ Len(content[id]) = 2
        /\ content[id][1] # content[id][2]

\* C7: correlation leaves the index as it was: the same identifier keys,
\* each with the same list.
C7_IndexReadOnly == [][pc = "generate_timeline" => content' = content]_vars

\* C8: two runs of the pipeline over the same inputs yield identical event
\* sequences, the order of changes and attributes included.
C8_Idempotent == (run = 2 /\ pc = "done") => out = prev_out

\* C9: the index is complete before the first lookup, and the walk adds
\* nothing to it afterwards: once correlation has started every walk entry
\* has been consumed and is in the index.
C9_IndexCompleteBeforeLookup ==
    (pc = "generate_timeline" \/ epos > 0) =>
        /\ wpos = Len(walk)
        /\ \A id \in Ids : IndexOf(id) = WalkDirents(id, Len(walk))

\* C9 witness: a lookup has succeeded against an index of two walk entries.
C9_Witness ==
    /\ Len(walk) = 2
    /\ epos > 0
    /\ Len(out) > 0

\* C10: every aggregated event carries the identifier, name and timestamp of
\* the first record of its group, and every record of the group has that
\* identifier and that timestamp.
C10_FirstRecordFields ==
    \A k \in DOMAIN usnjrnl :
        LET g == event_groups[k]
            e == usnjrnl[k]
        IN  /\ e.inode = g[1].file_reference_number
            /\ e.name = g[1].file_name
            /\ e.timestamp = g[1].timestamp
            /\ \A i \in DOMAIN g :
                /\ g[i].file_reference_number = e.inode
                /\ g[i].timestamp = e.timestamp

====
